---------------------------- MODULE Spec2Model ----------------------------
(***************************************************************************)
(* State-machine model of github-issue-tracker.py: the poll loop of main() *)
(* with its collaborators read_repositories_from_file, load_last_issues,   *)
(* save_last_issues, fetch_issues and send_telegram_message.               *)
(*                                                                         *)
(* Representation                                                          *)
(*   - a repository URL is the sequence of its "/"-separated segments;     *)
(*   - a line of the repository file is a sequence of tokens, " " being    *)
(*     whitespace and every other token a URL segment;                     *)
(*   - Python's None is NoneVal (<<>>) and an int n is <<n>> wherever a    *)
(*     value is Optional[int] (the cursor values);                         *)
(*   - the result of fetch_issues is a record [none, list]: none = TRUE is *)
(*     Python's None, otherwise list is the returned list;                 *)
(*   - a text (issue title, Telegram message) is a sequence of characters; *)
(*     literal text that holds no markup is one opaque token;              *)
(*   - time is counted in ticks, TicksPerSecond ticks to the second.       *)
(***************************************************************************)
EXTENDS Integers, Sequences, FiniteSets, TLC

(***************************************************************************)
(* Bounds of the model.                                                    *)
(***************************************************************************)
MaxIssue == 3          \* issue numbers are 1..MaxIssue
MaxCycles == 4         \* iterations of the while-loop that are explored
MaxDur == 1            \* longest duration, in ticks, of one remote call or write
TicksPerSecond == 2    \* resolution of the clock

(***************************************************************************)
(* Program constants.                                                      *)
(***************************************************************************)
REQUEST_DELAY == 1     \* seconds

Delay == REQUEST_DELAY * TicksPerSecond

NoneVal == <<>>
Some(n) == <<n>>
Val(c) == c[1]

Range(s) == {s[i] : i \in 1..Len(s)}

Max(S) == CHOOSE x \in S : \A y \in S : y <= x

(***************************************************************************)
(* Repositories and the repository file.                                   *)
(***************************************************************************)
RepoA == <<"https:", "", "github.com", "o", "a">>
RepoB == <<"https:", "", "github.com", "o", "b">>
RepoBad == <<"https:", "", "gitlab.com", "o", "c">>

\* lines of github_repo_links.txt, before strip()
LineA == <<" ", "https:", "", "github.com", "o", "a">>
LineB == <<"https:", "", "github.com", "o", "b", " ">>
LineBad == RepoBad
LineBlank == <<" ", " ">>
LineEmpty == <<>>

\* the contents github_repo_links.txt can have; "missing" and "unreadable"
\* are the two ways open()/read fails
RepoFiles ==
    { [kind |-> "missing", lines |-> <<>>],
      [kind |-> "unreadable", lines |-> <<>>],
      [kind |-> "text", lines |-> <<>>],
      [kind |-> "text", lines |-> <<LineBlank, LineEmpty>>],
      [kind |-> "text", lines |-> <<LineA, LineEmpty>>],
      [kind |-> "text", lines |-> <<LineB, LineBad, LineA>>] }

RECURSIVE LStrip(_)
LStrip(s) == IF s # <<>> /\ Head(s) = " " THEN LStrip(Tail(s)) ELSE s

RECURSIVE RStrip(_)
RStrip(s) ==
    IF s # <<>> /\ s[Len(s)] = " " THEN RStrip(SubSeq(s, 1, Len(s) - 1)) ELSE s

\* str.strip()
Strip(s) == RStrip(LStrip(s))

RECURSIVE StripLines(_)
StripLines(lines) ==
    IF lines = <<>> THEN <<>>
    ELSE IF Strip(Head(lines)) # <<>>
         THEN <<Strip(Head(lines))>> \o StripLines(Tail(lines))
         ELSE StripLines(Tail(lines))

\* a reader that strips the lines and keeps the blank ones
ReadKeepingBlankLines(f) ==
    IF f.kind = "text" THEN [i \in 1..Len(f.lines) |-> Strip(f.lines[i])] ELSE <<>>

\* read_repositories_from_file: [] on FileNotFoundError or any other
\* exception, else the stripped non-blank lines
read_repositories_from_file(f) ==
    IF f.kind = "text" THEN StripLines(f.lines) ELSE <<>>


(***************************************************************************)
(* The cursor file last_known_issues.json.  A file is missing, unreadable, *)
(* holds text that is no JSON ("corrupt"), or holds a JSON document: an    *)
(* object (a sequence of members [k, v], v a JSON null or a JSON number)   *)
(* or a value of another type (an array).                                  *)
(***************************************************************************)
JNull == [t |-> "null"]
JInt(n) == [t |-> "int", v |-> n]
JObject(members) == [t |-> "object", members |-> members]
JArray == [t |-> "array", members |-> <<>>]

FileMissing == [kind |-> "missing", doc |-> JNull]
FileCorrupt == [kind |-> "corrupt", doc |-> JNull]
FileJson(doc) == [kind |-> "json", doc |-> doc]

\* the contents last_known_issues.json can have when the process starts
CursorFiles ==
    { FileMissing,
      FileCorrupt,
      FileJson(JArray),
      FileJson(JObject(<<[k |-> RepoA, v |-> JNull], [k |-> RepoB, v |-> JInt(1)]>>)),
      FileJson(JObject(<<[k |-> RepoBad, v |-> JInt(3)], [k |-> RepoA, v |-> JInt(1)]>>)) }

\* a JSON value as the Python value json.load builds from it
FromJson(v) == IF v.t = "null" THEN NoneVal ELSE Some(v.v)

\* a dump that writes None as the number 0
ToJsonNoneAsZero(c) == IF c = NoneVal THEN JInt(0) ELSE JInt(Val(c))

\* a Python Optional[int] as the JSON value json.dump writes for it
ToJson(c) == IF c = NoneVal THEN JNull ELSE JInt(Val(c))

\* the dict of a JSON object: a later member overrides an earlier one
RECURSIVE ObjToDict(_)
ObjToDict(members) ==
    IF members = <<>> THEN <<>>
    ELSE LET n == Len(members)
             rest == ObjToDict(SubSeq(members, 1, n - 1))
             last == members[n]
         IN  [k \in DOMAIN rest \cup {last.k} |->
                 IF k = last.k THEN FromJson(last.v) ELSE rest[k]]

\* load_last_issues: the value json.load returns, or {} on FileNotFoundError,
\* JSONDecodeError or any other exception.  isDict tells a dict from a value
\* of another Python type.
load_last_issues(f) ==
    IF f.kind = "json"
    THEN IF f.doc.t = "object"
         THEN [isDict |-> TRUE, map |-> ObjToDict(f.doc.members)]
         ELSE [isDict |-> FALSE, map |-> <<>>]
    ELSE [isDict |-> TRUE, map |-> <<>>]

RECURSIVE DictMembers(_, _)
DictMembers(d, keys) ==
    IF keys = {} THEN <<>>
    ELSE LET k == CHOOSE x \in keys : TRUE
         IN  <<[k |-> k, v |-> ToJson(d[k])]>> \o DictMembers(d, keys \ {k})

\* json.dump(last_issues, file, indent=4): one member per key of the dict
Dump(d) == FileJson(JObject(DictMembers(d, DOMAIN d)))

\* save_last_issues: open(file_path, 'w') truncates the file, json.dump
\* writes it; every exception is caught.  outcome "ok": the file holds the
\* dump; "open_failed": open() raised, the file is untouched; "write_failed":
\* the write raised after the truncation, the file holds a prefix of the
\* dump, which is no JSON.
save_last_issues(f, last_issues, outcome) ==
    CASE outcome = "ok" -> Dump(last_issues)
      [] outcome = "open_failed" -> f
      [] outcome = "write_failed" -> FileCorrupt

SaveOutcomes == {"ok", "open_failed", "write_failed"}

(***************************************************************************)
(* fetch_issues.                                                           *)
(***************************************************************************)
Titles ==
    << <<"t">>,
       <<"<", "i", ">", "t", "<", "/", "i", ">">>,
       <<"<", "<", "b", ">", "b", ">", "t">>,
       <<"<", "u", ">", "t">> >>

\* the title of the issue numbered n on the remote
IssueTitle(n) == Titles[((n - 1) % Len(Titles)) + 1]

Item(n, pr) == [number |-> n, pull_request |-> pr, title |-> IssueTitle(n)]

RECURSIVE DescSeq(_, _)
DescSeq(S, pr) ==
    IF S = {} THEN <<>>
    ELSE LET n == Max(S) IN <<Item(n, pr[n])>> \o DescSeq(S \ {n}, pr)

\* the bodies of a 200 response of GET /repos/{owner}/{repo}/issues with
\* state=open, sort=created, direction=desc: open issues and pull requests,
\* newest first (numbers descending); pull_request = TRUE stands for an item
\* that has the 'pull_request' key
Listings ==
    UNION { { DescSeq(S, pr) : pr \in [S -> BOOLEAN] } : S \in SUBSET (1..MaxIssue) }

\* what the remote answers: requests.get raises ("neterr"), raise_for_status
\* raises ("http_error"), or a 200 with a listing
Responses ==
    { [status |-> "neterr", body |-> <<>>], [status |-> "http_error", body |-> <<>>] }
    \cup { [status |-> "ok", body |-> l] : l \in Listings }

\* re.search(r"github.com/([^/]+)/([^/]+)", repo_url)
UrlMatches(url) ==
    \E i \in 1..(Len(url) - 2) :
        /\ url[i] = "github.com"
        /\ url[i + 1] # ""
        /\ url[i + 2] # ""

IsIssue(item) == ~item.pull_request

\* a listing taken as it comes
FilterNothing(body) == body

\* issues = [issue for issue in response.json() if 'pull_request' not in issue]
FilterPullRequests(body) == SelectSeq(body, IsIssue)

NoneResult == [none |-> TRUE, list |-> <<>>]
ListResult(l) == [none |-> FALSE, list |-> l]

\* fetch_issues(repo_url) when the remote answers resp
fetch_issues(repo_url, resp) ==
    IF ~UrlMatches(repo_url) THEN NoneResult
    ELSE IF resp.status # "ok" THEN NoneResult
    ELSE ListResult(FilterPullRequests(resp.body))

(***************************************************************************)
(* The diff of main(): lines 179-208.                                      *)
(***************************************************************************)
Numbers(issues) == {issues[i].number : i \in 1..Len(issues)}

\* latest_issue_number = max(issue['number'] for issue in issues)
latest_issue_number(issues) == Max(Numbers(issues))

\* insertion of x in a list sorted by number, after the items of equal number
RECURSIVE InsertByNumber(_, _)
InsertByNumber(x, s) ==
    IF s = <<>> THEN <<x>>
    ELSE IF x.number < Head(s).number THEN <<x>> \o s
    ELSE <<Head(s)>> \o InsertByNumber(x, Tail(s))

\* a batch left in the order of the listing
Unsorted(s) == s

\* list.sort(key=lambda x: x['number']): ascending and stable
RECURSIVE SortByNumber(_)
SortByNumber(s) ==
    IF s = <<>> THEN <<>>
    ELSE InsertByNumber(s[Len(s)], SortByNumber(SubSeq(s, 1, Len(s) - 1)))

\* the issues from the cursor on: ">=" in the place of ">" on line 190
IssuesFrom(issues, prev) ==
    LET from(issue) == issue.number >= prev IN SelectSeq(issues, from)

\* [issue for issue in issues if issue['number'] > last_known_issues[repo_url]]
IssuesAbove(issues, prev) ==
    LET above(issue) == issue.number > prev IN SelectSeq(issues, above)

\* new_issues of lines 190-193, prev being the int last_known_issues[repo_url]
new_issues(issues, prev) == SortByNumber(IssuesAbove(issues, prev))

\* the branches with "!=" in the place of ">" on line 188
BranchOnDifference(result, prev) ==
    IF ~result.none /\ Len(result.list) > 0
    THEN IF prev = NoneVal THEN "baseline"
         ELSE IF latest_issue_number(result.list) # Val(prev) THEN "new"
         ELSE "stale"
    ELSE IF result.none THEN "error"
    ELSE "empty"

\* the branch main() takes on the fetch result and the cursor prev of the
\* repository (an Optional[int])
Branch(result, prev) ==
    IF ~result.none /\ Len(result.list) > 0
    THEN IF prev = NoneVal THEN "baseline"
         ELSE IF latest_issue_number(result.list) > Val(prev) THEN "new"
         ELSE "stale"
    ELSE IF result.none THEN "error"
    ELSE "empty"

\* a cursor that follows the latest number of every non-empty result
NextCursorFollowsLatest(result, prev) ==
    IF ~result.none /\ Len(result.list) > 0
    THEN Some(latest_issue_number(result.list))
    ELSE prev

\* a cursor that is forgotten when the fetch fails
NextCursorResetOnError(result, prev) ==
    IF result.none THEN NoneVal
    ELSE IF Branch(result, prev) \in {"baseline", "new"}
    THEN Some(latest_issue_number(result.list))
    ELSE prev

\* a cursor without lines 184-187: never set on the first observation
NextCursorNewOnly(result, prev) ==
    IF Branch(result, prev) = "new"
    THEN Some(latest_issue_number(result.list))
    ELSE prev

\* a cursor that is forgotten when the repository has no open issue
NextCursorClearsOnEmpty(result, prev) ==
    IF Branch(result, prev) = "empty" THEN NoneVal
    ELSE IF Branch(result, prev) \in {"baseline", "new"}
    THEN Some(latest_issue_number(result.list))
    ELSE prev

\* a cursor without line 205: set on the first observation only
NextCursorBaselineOnly(result, prev) ==
    IF Branch(result, prev) = "baseline"
    THEN Some(latest_issue_number(result.list))
    ELSE prev

\* the value of last_known_issues[repo_url] after lines 179-210
NextCursor(result, prev) ==
    IF Branch(result, prev) \in {"baseline", "new"}
    THEN Some(latest_issue_number(result.list))
    ELSE prev

\* the batch the notifier is called with: <<>> when it is not called
Batch(result, prev) ==
    IF Branch(result, prev) = "new" THEN new_issues(result.list, Val(prev)) ELSE <<>>

(***************************************************************************)
(* Messages and send_telegram_message.                                     *)
(***************************************************************************)
RECURSIVE JoinUrl(_)
JoinUrl(url) ==
    IF Len(url) <= 1 THEN url
    ELSE <<Head(url), "/">> \o JoinUrl(Tail(url))

TagOpen(name) == <<"<">> \o name \o <<">">>
TagClose(name) == <<"<", "/">> \o name \o <<">">>

TagB == <<"b">>
TagI == <<"i">>
TagCode == <<"c", "o", "d", "e">>
TagPre == <<"p", "r", "e">>

RECURSIVE TitleLines(_)
TitleLines(batch) ==
    IF batch = <<>> THEN <<>>
    ELSE <<"\n", "- ">> \o Head(batch).title \o TitleLines(Tail(batch))

\* lines 197-201: the header in <b>..</b>, then one "- title" line per issue
BuildMessage(repo_url, batch) ==
    TagOpen(TagB) \o <<"New issue(s): ">> \o JoinUrl(repo_url) \o <<"/issues">>
        \o TagClose(TagB) \o TitleLines(batch)

\* str.replace(old, ""): the non-overlapping occurrences of old, found from
\* left to right, are removed
RECURSIVE Remove(_, _)
Remove(s, old) ==
    IF Len(s) < Len(old) THEN s
    ELSE IF SubSeq(s, 1, Len(old)) = old
         THEN Remove(SubSeq(s, Len(old) + 1, Len(s)), old)
         ELSE <<Head(s)>> \o Remove(Tail(s), old)

\* lines 139-142
PlainText(message) ==
    LET s1 == Remove(Remove(message, TagOpen(TagB)), TagClose(TagB))
        s2 == Remove(Remove(s1, TagOpen(TagI)), TagClose(TagI))
        s3 == Remove(Remove(s2, TagOpen(TagCode)), TagClose(TagCode))
    IN  Remove(Remove(s3, TagOpen(TagPre)), TagClose(TagPre))

Attempt(mode, text, ok) == [parse_mode |-> mode, text |-> text, ok |-> ok]

\* a notifier without line 143: the second attempt posts the message as it is
SendWithoutStripping(message, ok1, ok2) ==
    IF ok1 THEN <<Attempt("HTML", message, TRUE)>>
    ELSE <<Attempt("HTML", message, FALSE), Attempt("", message, ok2)>>

\* send_telegram_message: the requests.post calls it makes, in order, when
\* the first one succeeds (ok1) or fails and the second succeeds (ok2) or
\* fails; both failures are caught
send_telegram_message(message, ok1, ok2) ==
    IF ok1 THEN <<Attempt("HTML", message, TRUE)>>
    ELSE <<Attempt("HTML", message, FALSE), Attempt("", PlainText(message), ok2)>>

\* a notifier that is called on the first observation too
NotifierCalledOnBaseline(result, prev) ==
    Branch(result, prev) \in {"baseline", "new"}

\* a notifier that is never called
NotifierNeverCalled(result, prev) == FALSE

\* a cursor that is read back from the cursor file in every iteration
CursorFromFile(memory, file, url) ==
    LET loaded == load_last_issues(file)
    IN  IF loaded.isDict /\ url \in DOMAIN loaded.map THEN loaded.map[url]
        ELSE NoneVal

\* last_known_issues[repo_url] of lines 184-208: the dict in memory is read,
\* the cursor file is not
CursorOf(memory, file, url) == memory[url]

\* whether lines 195-202 call send_telegram_message
NotifierCalled(result, prev) ==
    Branch(result, prev) = "new" /\ Batch(result, prev) # <<>>

(***************************************************************************)
(* Pacing: lines 216-220.                                                  *)
(***************************************************************************)
\* the sleep of an iteration that has never waited
SleepTimeNone(elapsed_time) == 0

\* the argument of time.sleep, 0 when it is not called
SleepTime(elapsed_time) ==
    IF elapsed_time < Delay THEN Delay - elapsed_time ELSE 0

(***************************************************************************)
(* Round robin: lines 172-173.                                             *)
(***************************************************************************)
\* an index that stays on the last repository instead of wrapping around
NextIndexStuck(index, n) == IF index + 1 >= n THEN index ELSE index + 1

\* repo_index = (repo_index + 1) % len(repositories)
NextIndex(index, n) == (index + 1) % n

(***************************************************************************)
(* Startup: lines 153-166.                                                 *)
(***************************************************************************)
\* "if not repositories"
NoRepositories(repos) == repos = <<>>

\* lines 161-163: every configured repository gets an entry
EnsureEntries(map, repos) ==
    [k \in DOMAIN map \cup Range(repos) |->
        IF k \in DOMAIN map THEN map[k] ELSE NoneVal]

\* the status the interpreter exits with when main() returns
ReturnStatus == 0
\* the status the interpreter exits with on an uncaught exception
TracebackStatus == 1

(***************************************************************************)
(* State.                                                                  *)
(***************************************************************************)
VARIABLES
    pc,                 \* where the process is: "start", "loop" (top of the
                        \* while-loop), "fetch", "process", "save", "pace",
                        \* "exited", "crashed"
    exit_code,          \* NoneVal while the process runs, else its exit status
    repos_file,         \* github_repo_links.txt
    cursor_file,        \* last_known_issues.json
    repositories,       \* main(): repositories
    last_known_issues,  \* main(): last_known_issues, a dict url -> Optional[int]
    repo_index,         \* main(): repo_index
    repo_url,           \* main(): repo_url
    issues,             \* main(): issues, the result of fetch_issues
    start_time,         \* main(): start_time
    now,                \* the clock time.time() reads, in ticks
    \* history of the run, read by the properties only
    cycle,              \* number of iterations of the while-loop begun
    starts,             \* start_time of every iteration begun, in order
    prev_cursors,       \* last_known_issues when the current iteration began
    response,           \* what the remote answered in the current iteration,
                        \* kept until the cursor file is written
    batch,              \* new_issues of the current iteration
    sent,               \* the requests.post calls of the current iteration
    notified,           \* url -> issue numbers passed to the notifier so far
    dropped,            \* url -> issue numbers of batches no attempt delivered
    did,                \* the kinds of I/O done so far: "fetch", "post", "write"
    visits,             \* the positions of the list selected so far, in order
    restarts,           \* number of times the process was killed and started again
    last_crash,         \* what the process held when it was last killed
    observed,           \* what a reader of the cursor file has read last
    round_trip_of       \* the record x of a round trip save(load(x))

vars == <<pc, exit_code, repos_file, cursor_file, repositories,
          last_known_issues, repo_index, repo_url, issues, start_time, now,
          cycle, starts, prev_cursors, response, batch, sent, notified,
          dropped, did, visits, restarts, last_crash, observed, round_trip_of>>

\* the history that only the crash, the reader and the round trip write
aux == <<restarts, last_crash, observed, round_trip_of>>

NoCrash == [at |-> "none", url |-> <<>>, memory |-> <<>>, old |-> <<>>,
            detected |-> {}]
NotRead == [kind |-> "unread", doc |-> JNull]

NoResponse == [status |-> "none", body |-> <<>>]

Init ==
    /\ pc = "start"
    /\ exit_code = NoneVal
    /\ repos_file \in RepoFiles
    /\ cursor_file \in CursorFiles
    /\ repositories = <<>>
    /\ last_known_issues = <<>>
    /\ repo_index = 0
    /\ repo_url = <<>>
    /\ issues = NoneResult
    /\ start_time = 0
    /\ now = 0
    /\ cycle = 0
    /\ starts = <<>>
    /\ prev_cursors = <<>>
    /\ response = NoResponse
    /\ batch = <<>>
    /\ sent = <<>>
    /\ notified = <<>>
    /\ dropped = <<>>
    /\ did = {}
    /\ visits = <<>>
    /\ restarts = 0
    /\ last_crash = NoCrash
    /\ observed = NotRead
    /\ round_trip_of = NotRead

\* main(), lines 153-166
Startup ==
    /\ pc = "start"
    /\ LET repos == read_repositories_from_file(repos_file)
           loaded == load_last_issues(cursor_file)
       IN  /\ repositories' = repos
           /\ IF NoRepositories(repos)
              THEN /\ pc' = "exited"
                   /\ exit_code' = Some(ReturnStatus)
                   /\ UNCHANGED <<last_known_issues, notified, dropped>>
              ELSE IF ~loaded.isDict
              THEN \* line 163 raises TypeError on a value that is no dict
                   /\ pc' = "crashed"
                   /\ exit_code' = Some(TracebackStatus)
                   /\ UNCHANGED <<last_known_issues, notified, dropped>>
              ELSE /\ pc' = "loop"
                   /\ exit_code' = NoneVal
                   /\ last_known_issues' = EnsureEntries(loaded.map, repos)
                   /\ notified' = [u \in Range(repos) |-> {}]
                   /\ dropped' = [u \in Range(repos) |-> {}]
    /\ UNCHANGED <<repos_file, cursor_file, repo_index, repo_url, issues,
                   start_time, now, cycle, starts, prev_cursors, response,
                   batch, sent, did, visits, aux>>

\* lines 167-173: the top of one iteration of the while-loop
CycleBegin ==
    /\ pc = "loop"
    /\ cycle < MaxCycles
    /\ start_time' = now
    /\ repo_url' = repositories[repo_index + 1]
    /\ repo_index' = NextIndex(repo_index, Len(repositories))
    /\ visits' = Append(visits, repo_index + 1)
    /\ pc' = "fetch"
    /\ cycle' = cycle + 1
    /\ starts' = Append(starts, now)
    /\ prev_cursors' = last_known_issues
    /\ response' = NoResponse
    /\ issues' = NoneResult
    /\ batch' = <<>>
    /\ sent' = <<>>
    /\ UNCHANGED <<exit_code, repos_file, cursor_file, repositories,
                   last_known_issues, now, notified, dropped, did, aux>>

\* line 176: issues = fetch_issues(repo_url), the remote answering one of
\* resps after one of the durations durs
FetchWith(resps, durs) ==
    /\ pc = "fetch"
    /\ \E resp \in resps, d \in durs :
          LET requested == UrlMatches(repo_url)
          IN  /\ issues' = fetch_issues(repo_url, resp)
              /\ response' = IF requested THEN resp ELSE NoResponse
              /\ now' = now + (IF requested THEN d ELSE 0)
              /\ did' = IF requested THEN did \cup {"fetch"} ELSE did
    /\ pc' = "process"
    /\ UNCHANGED <<exit_code, repos_file, cursor_file, repositories,
                   last_known_issues, repo_index, repo_url, start_time, cycle,
                   starts, prev_cursors, batch, sent, notified, dropped,
                   visits, aux>>

\* lines 179-210, send_telegram_message taking one of the durations durs
ProcessWith(durs) ==
    /\ pc = "process"
    /\ \E ok1 \in BOOLEAN, ok2 \in BOOLEAN, d \in durs :
          LET prev == CursorOf(last_known_issues, cursor_file, repo_url)
              called == NotifierCalled(issues, prev)
              new == Batch(issues, prev)
              posts == IF called
                       THEN send_telegram_message(BuildMessage(repo_url, new), ok1, ok2)
                       ELSE <<>>
              delivered == \E i \in 1..Len(posts) : posts[i].ok
          IN  /\ batch' = new
              /\ sent' = posts
              /\ last_known_issues' =
                     [last_known_issues EXCEPT ![repo_url] = NextCursor(issues, prev)]
              /\ now' = now + (IF called THEN d ELSE 0)
              /\ notified' = IF called
                             THEN [notified EXCEPT ![repo_url] = @ \cup Numbers(new)]
                             ELSE notified
              /\ dropped' = IF called /\ ~delivered
                            THEN [dropped EXCEPT ![repo_url] = @ \cup Numbers(new)]
                            ELSE dropped
              /\ did' = IF called THEN did \cup {"post"} ELSE did
    /\ pc' = "save"
    /\ UNCHANGED <<exit_code, repos_file, cursor_file, repositories, repo_index,
                   repo_url, issues, start_time, cycle, starts, prev_cursors,
                   response, visits, aux>>

\* line 213: save_last_issues(LAST_ISSUE_FILE, last_known_issues), taking one
\* of the durations durs
SaveWith(durs) ==
    /\ pc = "save"
    /\ \E outcome \in SaveOutcomes, d \in durs :
          /\ cursor_file' = save_last_issues(cursor_file, last_known_issues, outcome)
          /\ now' = now + d
          /\ did' = IF outcome = "open_failed" THEN did ELSE did \cup {"write"}
    /\ pc' = "pace"
    /\ response' = NoResponse
    /\ UNCHANGED <<exit_code, repos_file, repositories, last_known_issues,
                   repo_index, repo_url, issues, start_time, cycle, starts,
                   prev_cursors, batch, sent, notified, dropped, visits, aux>>

\* lines 216-220: sleep for what is left of REQUEST_DELAY; time.sleep
\* suspends for at least its argument, and for one of extras more
PaceWith(extras) ==
    /\ pc = "pace"
    /\ \E e \in extras :
          LET secs == SleepTime(now - start_time)
          IN  now' = now + secs + (IF secs > 0 THEN e ELSE 0)
    /\ pc' = "loop"
    /\ UNCHANGED <<exit_code, repos_file, cursor_file, repositories,
                   last_known_issues, repo_index, repo_url, issues, start_time,
                   cycle, starts, prev_cursors, response, batch, sent, notified,
                   dropped, did, visits, aux>>

(***************************************************************************)
(* Spec: the program on every answer of the remote, every outcome of the   *)
(* notifier and of the save; the calls take no time, so that every         *)
(* iteration sleeps REQUEST_DELAY.                                         *)
(***************************************************************************)
Instant == {0}

Fetch == FetchWith(Responses, Instant)
Process == ProcessWith(Instant)
Save == SaveWith(Instant)
Pace == PaceWith(Instant)

Next == Startup \/ CycleBegin \/ Fetch \/ Process \/ Save \/ Pace

Spec == Init /\ [][Next]_vars

(***************************************************************************)
(* TimedSpec: the program with calls that take 0..MaxDur ticks each, on a  *)
(* remote that fails or lists every issue.                                 *)
(***************************************************************************)
Durations == 0..MaxDur

AllIssues == DescSeq(1..MaxIssue, [n \in 1..MaxIssue |-> FALSE])

TimedResponses ==
    { [status |-> "neterr", body |-> <<>>], [status |-> "ok", body |-> AllIssues] }

TimedFetch == FetchWith(TimedResponses, Durations)
TimedProcess == ProcessWith(Durations)
TimedSave == SaveWith(Durations)
TimedPace == PaceWith(Durations)

TimedNext ==
    Startup \/ CycleBegin \/ TimedFetch \/ TimedProcess \/ TimedSave \/ TimedPace

TimedSpec == Init /\ [][TimedNext]_vars

(***************************************************************************)
(* CrashSpec: the program with the save in the steps the file system sees  *)
(* (line 79 truncates the file, the buffered text is written when the      *)
(* buffer is flushed and when the file is closed), killed and started      *)
(* again up to MaxRestarts times.  Every save succeeds; the remote fails   *)
(* or lists every issue.                                                   *)
(***************************************************************************)
MaxRestarts == 1

\* the file after open(file_path, 'w'), before anything is written: empty
FileTruncated == [kind |-> "truncated", doc |-> JNull]

\* the file after a flush of a part of the text of the dump: a prefix of it
FilePartial == [kind |-> "partial", doc |-> JNull]

\* line 79: open(file_path, 'w')
SaveOpen ==
    /\ pc = "save"
    /\ cursor_file' = FileTruncated
    /\ did' = did \cup {"write"}
    /\ pc' = "saving"
    /\ response' = NoResponse
    /\ UNCHANGED <<exit_code, repos_file, repositories, last_known_issues,
                   repo_index, repo_url, issues, start_time, now, cycle, starts,
                   prev_cursors, batch, sent, notified, dropped, visits, aux>>

\* line 80: json.dump has filled the buffer of the file object, which
\* writes what it holds
SaveFlush ==
    /\ pc = "saving"
    /\ cursor_file = FileTruncated
    /\ cursor_file' = FilePartial
    /\ UNCHANGED <<pc, exit_code, repos_file, repositories, last_known_issues,
                   repo_index, repo_url, issues, start_time, now, cycle, starts,
                   prev_cursors, response, batch, sent, notified, dropped, did,
                   visits, aux>>

\* lines 79-80: the end of the with-block closes the file, which then holds
\* the whole dump
SaveClose ==
    /\ pc = "saving"
    /\ cursor_file' = save_last_issues(cursor_file, last_known_issues, "ok")
    /\ pc' = "pace"
    /\ UNCHANGED <<exit_code, repos_file, repositories, last_known_issues,
                   repo_index, repo_url, issues, start_time, now, cycle, starts,
                   prev_cursors, response, batch, sent, notified, dropped, did,
                   visits, aux>>

\* another process reads the cursor file, once, while this one runs
Read ==
    /\ pc \in {"loop", "fetch", "process", "save", "saving", "pace"}
    /\ observed = NotRead
    /\ observed' = cursor_file
    /\ UNCHANGED <<pc, exit_code, repos_file, cursor_file, repositories,
                   last_known_issues, repo_index, repo_url, issues, start_time,
                   now, cycle, starts, prev_cursors, response, batch, sent,
                   notified, dropped, did, visits, restarts, last_crash,
                   round_trip_of>>

\* the process is killed inside the while-loop and started again: the files
\* stay, the memory is lost; the new process counts its clock from its start
Kill ==
    /\ pc \in {"loop", "fetch", "process", "save", "saving", "pace"}
    /\ restarts < MaxRestarts
    /\ restarts' = restarts + 1
    /\ last_crash' = [at |-> pc,
                      url |-> repo_url,
                      memory |-> last_known_issues,
                      old |-> IF cycle > 0 THEN prev_cursors[repo_url] ELSE NoneVal,
                      detected |-> IF pc \in {"save", "saving"}
                                   THEN Numbers(batch) ELSE {}]
    /\ pc' = "start"
    /\ exit_code' = NoneVal
    /\ repositories' = <<>>
    /\ last_known_issues' = <<>>
    /\ repo_index' = 0
    /\ repo_url' = <<>>
    /\ issues' = NoneResult
    /\ start_time' = 0
    /\ cycle' = 0
    /\ starts' = <<>>
    /\ prev_cursors' = <<>>
    /\ response' = NoResponse
    /\ batch' = <<>>
    /\ sent' = <<>>
    /\ notified' = <<>>
    /\ dropped' = <<>>
    /\ visits' = <<>>
    /\ now' = 0
    /\ UNCHANGED <<repos_file, cursor_file, did, observed, round_trip_of>>

CrashFetch == FetchWith(TimedResponses, Instant)

\* the program with the save in steps
SteppedNext ==
    \/ Startup \/ CycleBegin \/ CrashFetch \/ Process
    \/ SaveOpen \/ SaveFlush \/ SaveClose \/ Pace

CrashNext == SteppedNext \/ Kill

CrashSpec == Init /\ [][CrashNext]_vars

(***************************************************************************)
(* ReaderSpec: the program with the save in steps, beside a reader of the  *)
(* cursor file.                                                            *)
(***************************************************************************)
ReaderNext == SteppedNext \/ Read

ReaderSpec == Init /\ [][ReaderNext]_vars

\* ---------------------------------------------------------------------
\* The round trip save_last_issues(load_last_issues(x)), lines 61-82
\* ---------------------------------------------------------------------

\* the largest number of members of a record x
MaxMembers == 2

\* the members a record can hold: a URL with null or an integer
RoundTripMembers ==
    { [k |-> u, v |-> w] :
        u \in {RepoA, RepoB, RepoBad},
        w \in {JNull} \cup {JInt(n) : n \in 0..MaxIssue} }

\* the records x: JSON objects of up to MaxMembers members, a key may repeat
RoundTripFiles ==
    { FileJson(JObject(ms)) :
        ms \in UNION { [1..n -> RoundTripMembers] : n \in 0..MaxMembers } }

RoundTripInit ==
    /\ pc = "stored"
    /\ exit_code = NoneVal
    /\ repos_file = FileMissing
    /\ cursor_file \in RoundTripFiles
    /\ repositories = <<>>
    /\ last_known_issues = <<>>
    /\ repo_index = 0
    /\ repo_url = <<>>
    /\ issues = NoneResult
    /\ start_time = 0
    /\ now = 0
    /\ cycle = 0
    /\ starts = <<>>
    /\ prev_cursors = <<>>
    /\ response = NoResponse
    /\ batch = <<>>
    /\ sent = <<>>
    /\ notified = <<>>
    /\ dropped = <<>>
    /\ did = {}
    /\ visits = <<>>
    /\ restarts = 0
    /\ last_crash = NoCrash
    /\ observed = NotRead
    /\ round_trip_of = NotRead

\* load_last_issues(LAST_ISSUE_FILE) on the record x
RoundTripLoad ==
    /\ pc = "stored"
    /\ load_last_issues(cursor_file).isDict
    /\ last_known_issues' = load_last_issues(cursor_file).map
    /\ round_trip_of' = cursor_file
    /\ pc' = "loaded"
    /\ UNCHANGED <<exit_code, repos_file, cursor_file, repositories, repo_index,
                   repo_url, issues, start_time, now, cycle, starts,
                   prev_cursors, response, batch, sent, notified, dropped, did,
                   visits, restarts, last_crash, observed>>

\* save_last_issues(LAST_ISSUE_FILE, .) on what the load returned
RoundTripSave ==
    /\ pc = "loaded"
    /\ cursor_file' = save_last_issues(cursor_file, last_known_issues, "ok")
    /\ did' = did \cup {"write"}
    /\ pc' = "saved"
    /\ UNCHANGED <<exit_code, repos_file, repositories, last_known_issues,
                   repo_index, repo_url, issues, start_time, now, cycle, starts,
                   prev_cursors, response, batch, sent, notified, dropped,
                   visits, aux>>

RoundTripNext == RoundTripLoad \/ RoundTripSave

RoundTripSpec == RoundTripInit /\ [][RoundTripNext]_vars

(***************************************************************************)
(* Properties.                                                             *)
(***************************************************************************)
\* the iteration begun last has passed lines 179-210
Processed == cycle > 0 /\ pc \in {"save", "pace", "loop"}

\* the cursor of the selected repository when the iteration began, and now
Prev == prev_cursors[repo_url]
Cur == last_known_issues[repo_url]

Fetched == ~issues.none /\ Len(issues.list) > 0
Latest == Max(Numbers(issues.list))

\* C7 (pacing bound): the start times of any two iterations i < j of the
\* while-loop are at least (j - i) * REQUEST_DELAY apart, whatever the
\* durations of the fetch, the notification and the save.
PacingBound ==
    \A i \in DOMAIN starts : \A j \in DOMAIN starts :
        i < j => starts[j] - starts[i] >= (j - i) * Delay

\* three iterations, one that slept (the gap is the delay) and one whose
\* work took longer than the delay
PacingWitness ==
    /\ Len(starts) >= 3
    /\ \E i \in 1..(Len(starts) - 1) : starts[i + 1] - starts[i] = Delay
    /\ \E i \in 1..(Len(starts) - 1) : starts[i + 1] - starts[i] > Delay

\* C1 (first-observation baseline): after an iteration that found the cursor
\* of the selected repository absent and fetched a non-empty result, the
\* notifier has not been called and the cursor is the maximum number of the
\* result.
FirstObservationBaseline ==
    (Processed /\ Prev = NoneVal /\ Fetched) =>
        /\ sent = <<>>
        /\ Cur = Some(Latest)

\* a finished first observation of a result of several issues
FirstObservationWitness ==
    /\ pc = "loop" /\ cycle > 0
    /\ Prev = NoneVal
    /\ ~issues.none /\ Len(issues.list) >= 2

\* C2 (delta correctness): after an iteration that found the cursor set to
\* prev and fetched a result whose maximum number exceeds prev, the notifier
\* has been called once, with the fetched issues numbered above prev and no
\* others, in ascending order of number, and the cursor is that maximum.
DeltaCorrectness ==
    (Processed /\ Prev # NoneVal /\ Fetched /\ Latest > Val(Prev)) =>
        /\ sent # <<>>
        /\ sent[1].text = BuildMessage(repo_url, batch)
        /\ Range(batch) = {x \in Range(issues.list) : x.number > Val(Prev)}
        /\ Len(batch) = Cardinality({i \in 1..Len(issues.list) :
                                        issues.list[i].number > Val(Prev)})
        /\ \A i \in 1..Len(batch) : \A j \in 1..Len(batch) :
               i < j => batch[i].number <= batch[j].number
        /\ Cur = Some(Latest)

\* a batch of several issues, taken from a result that also holds an issue
\* the cursor has passed
DeltaWitness ==
    /\ pc = "loop" /\ cycle > 0
    /\ Prev # NoneVal
    /\ Len(batch) >= 2
    /\ Len(issues.list) > Len(batch)

\* a is a cursor value that is not behind b: b absent, or both set and a >= b
NotBehind(a, b) == b = NoneVal \/ (a # NoneVal /\ Val(a) >= Val(b))

\* C3 (monotonic cursor): no step of the program decreases the cursor of any
\* repository or makes a set cursor absent.
MonotonicCursor ==
    [][\A u \in DOMAIN last_known_issues :
          /\ u \in DOMAIN last_known_issues'
          /\ NotBehind(last_known_issues'[u], last_known_issues[u])]_vars

\* an iteration whose result holds only numbers below the cursor
MonotonicWitness ==
    /\ Processed
    /\ Prev # NoneVal /\ Fetched /\ Latest < Val(Prev)

\* C4 (no-op on stale data): after an iteration that found the cursor set to
\* prev and fetched a non-empty result with no number above prev, the
\* notifier has not been called and the cursor is still prev.
NoOpOnStaleData ==
    (Processed /\ Prev # NoneVal /\ Fetched /\ Latest <= Val(Prev)) =>
        /\ sent = <<>>
        /\ batch = <<>>
        /\ Cur = Prev

\* a stale result of several issues, the newest being the cursor itself
StaleWitness ==
    /\ pc = "loop" /\ cycle > 0
    /\ Prev # NoneVal /\ Fetched
    /\ Latest = Val(Prev)
    /\ Len(issues.list) >= 2

\* C5 (fault isolation): once the fetch of an iteration has failed, no cursor
\* is changed by the iteration, the notifier is not called, the process has
\* not exited, every step of the rest of the iteration can be taken, and the
\* next iteration selects the next repository of the list.
FaultIsolation ==
    (cycle > 0 /\ pc \in {"process", "save", "pace", "loop"} /\ issues.none) =>
        /\ last_known_issues = prev_cursors
        /\ sent = <<>>
        /\ exit_code = NoneVal
        /\ pc = "process" => ENABLED Process
        /\ pc = "save" => ENABLED Save
        /\ pc = "pace" => ENABLED Pace
        /\ (pc = "loop" /\ cycle < MaxCycles) => ENABLED CycleBegin
        /\ repo_index = cycle % Len(repositories)
        /\ repositories[((cycle - 1) % Len(repositories)) + 1] = repo_url

\* a finished iteration whose request failed, while another repository has
\* a cursor
FaultIsolationWitness ==
    /\ pc = "loop" /\ cycle >= 2
    /\ issues.none
    /\ UrlMatches(repo_url)
    /\ \E u \in DOMAIN last_known_issues :
          u # repo_url /\ last_known_issues[u] # NoneVal

\* the numbers of the items of a listing that are issues
IssueNumbers(body) == {body[i].number : i \in {k \in 1..Len(body) : ~body[k].pull_request}}

\* C6 (pull-request filtering): no item with the pull_request key is in the
\* list fetch_issues returns or in the batch; a cursor the iteration has
\* changed is the highest number among the issues of the listing; and when
\* no issue of the listing is above a set cursor, the notifier is not called
\* and the cursor stays.
PullRequestFiltering ==
    (pc \in {"process", "save"} /\ response.status = "ok") =>
        /\ \A i \in 1..Len(issues.list) : ~issues.list[i].pull_request
        /\ Numbers(issues.list) = IssueNumbers(response.body)
        /\ pc = "save" =>
              /\ \A i \in 1..Len(batch) : ~batch[i].pull_request
              /\ Cur # Prev => Cur = Some(Max(IssueNumbers(response.body)))
              /\ (Prev # NoneVal /\ \A n \in IssueNumbers(response.body) : n <= Val(Prev))
                    => (sent = <<>> /\ Cur = Prev)

\* a listing with an issue and, above the cursor and above every issue, a
\* pull request
PullRequestWitness ==
    /\ pc = "save" /\ response.status = "ok"
    /\ Prev # NoneVal
    /\ IssueNumbers(response.body) # {}
    /\ \E i \in 1..Len(response.body) :
          /\ response.body[i].pull_request
          /\ response.body[i].number > Val(Prev)
          /\ \A n \in IssueNumbers(response.body) : n < response.body[i].number

\* the repository file can be read and holds a line that is not blank
RepoFileUsable(f) ==
    /\ f.kind = "text"
    /\ \E i \in 1..Len(f.lines) : \E j \in 1..Len(f.lines[i]) : f.lines[i][j] # " "

\* C8 as claimed (configuration error is fatal with a non-zero status): when
\* the repository list is empty or unreadable, the process exits at startup
\* with a non-zero exit status, before any fetch, notification or cursor
\* write.
ConfigErrorExitsNonZero ==
    (~RepoFileUsable(repos_file) /\ pc # "start") =>
        /\ pc = "exited"
        /\ exit_code # NoneVal /\ Val(exit_code) # 0
        /\ did = {}

\* C8 as amended: when the repository list is empty or unreadable, main()
\* returns at startup and the process exits with status 0, before any fetch,
\* notification or cursor write and before any iteration of the loop.
ConfigErrorExitsZero ==
    (~RepoFileUsable(repos_file) /\ pc # "start") =>
        /\ pc = "exited"
        /\ exit_code = Some(0)
        /\ did = {}
        /\ cycle = 0
        /\ cursor_file \in CursorFiles

\* the process has exited on a repository file that holds blank lines only
ConfigErrorWitness ==
    /\ pc = "exited"
    /\ repos_file.kind = "text"
    /\ repos_file.lines # <<>>

\* C9 (dropped notifications are never retried): when the notifier was called
\* and every attempt failed, the cursor has advanced to the latest number all
\* the same; the cursor of a repository is never below a number of a dropped
\* batch; and no later batch of the repository holds such a number.
DroppedNeverRetried ==
    /\ []((Processed /\ sent # <<>> /\ \A i \in 1..Len(sent) : ~sent[i].ok)
             => Cur = Some(Latest))
    /\ [](\A u \in DOMAIN dropped : \A n \in dropped[u] :
             /\ last_known_issues[u] # NoneVal
             /\ Val(last_known_issues[u]) >= n)
    /\ [][pc = "process" => Numbers(batch') \cap dropped[repo_url] = {}]_vars

\* a later batch of a repository of which a batch was dropped, taken from a
\* result that still lists a dropped issue
DroppedWitness ==
    /\ pc = "save"
    /\ batch # <<>>
    /\ \E n \in dropped[repo_url] :
          n \notin Numbers(batch) /\ n \in Numbers(issues.list)

\* the tags lines 139-142 remove, in that order
StripTags ==
    << TagOpen(TagB), TagClose(TagB), TagOpen(TagI), TagClose(TagI),
       TagOpen(TagCode), TagClose(TagCode), TagOpen(TagPre), TagClose(TagPre) >>

\* the number of characters of text that are in an occurrence of tag
OccurrenceChars(tag, text) ==
    Len(tag) * Cardinality({i \in 1..(Len(text) - Len(tag) + 1) :
                               SubSeq(text, i, i + Len(tag) - 1) = tag})

RECURSIVE TagChars(_, _)
TagChars(tags, text) ==
    IF tags = <<>> THEN 0
    ELSE OccurrenceChars(Head(tags), text) + TagChars(Tail(tags), text)

RECURSIVE IsSubsequence(_, _)
IsSubsequence(a, b) ==
    IF a = <<>> THEN TRUE
    ELSE IF b = <<>> THEN FALSE
    ELSE IF Head(a) = Head(b) THEN IsSubsequence(Tail(a), Tail(b))
    ELSE IsSubsequence(a, Tail(b))

ValidMapping(f) == f.kind = "json" /\ f.doc.t = "object"

\* C13 as claimed (load never fails the process): whatever the cursor file
\* holds, the process does not end at startup; when the file is missing,
\* unreadable, corrupt or holds JSON that is no mapping, the loop is entered
\* with the cursor of every configured repository absent.
LoadNeverFailsProcess ==
    (RepoFileUsable(repos_file) /\ pc # "start") =>
        /\ pc # "crashed"
        /\ exit_code = NoneVal
        /\ (cycle = 0 /\ ~ValidMapping(cursor_file)) =>
              /\ pc = "loop"
              /\ DOMAIN last_known_issues = Range(repositories)
              /\ \A u \in DOMAIN last_known_issues : last_known_issues[u] = NoneVal

\* the save of the iteration begun last has not left the dump of the dict in
\* the cursor file
SaveFailed ==
    /\ cycle > 0
    /\ pc \in {"pace", "loop"}
    /\ cursor_file # Dump(last_known_issues)

\* C14 (persistence errors are non-fatal, the memory stays authoritative):
\* after a failed save the process runs on and the dict in memory is what the
\* iteration made of it; every batch holds only numbers above the cursor the
\* memory held when the iteration began, and every number notified so far is
\* at or below the cursor in memory, so that no issue is notified again.
PersistenceErrorNonFatal ==
    /\ SaveFailed =>
          /\ exit_code = NoneVal
          /\ pc = "pace" => ENABLED Pace
          /\ (pc = "loop" /\ cycle < MaxCycles) => ENABLED CycleBegin
          /\ \A u \in DOMAIN last_known_issues :
                u # repo_url => last_known_issues[u] = prev_cursors[u]
          /\ NotBehind(Cur, Prev)
    /\ (Processed /\ Prev # NoneVal) =>
          \A i \in 1..Len(batch) : batch[i].number > Val(Prev)
    /\ pc \in {"loop", "fetch", "process", "save", "pace"} =>
          \A u \in DOMAIN notified : \A n \in notified[u] :
              /\ last_known_issues[u] # NoneVal
              /\ n <= Val(last_known_issues[u])

\* a batch computed while the cursor file is behind the memory, from a result
\* that lists an issue the memory has passed
PersistenceWitness ==
    /\ pc = "save"
    /\ batch # <<>>
    /\ CursorFromFile(last_known_issues, cursor_file, repo_url) # Cur
    /\ CursorFromFile(last_known_issues, cursor_file, repo_url) # Prev
    /\ Len(issues.list) > Len(batch)

\* C16 as claimed (cursor creation): after any successful fetch of a
\* repository its cursor is set.
CursorSetAfterSuccessfulFetch ==
    (Processed /\ ~issues.none) => Cur # NoneVal

\* C16 as amended: after a successful fetch that returned at least one issue
\* the cursor of the repository is set, and when it was absent it is the
\* maximum number of the result and the notifier has not been called; a
\* successful fetch that returned no issue leaves the cursor as it was,
\* absent if it was absent.
CursorCreation ==
    /\ (Processed /\ Fetched) =>
          /\ Cur # NoneVal
          /\ Prev = NoneVal => (Cur = Some(Latest) /\ sent = <<>>)
    /\ (Processed /\ ~issues.none /\ issues.list = <<>>) => Cur = Prev

\* a cursor created in the second iteration or later
CursorCreationWitness ==
    /\ pc = "pace" /\ cycle >= 2
    /\ Prev = NoneVal
    /\ Cur # NoneVal

\* C17 (round robin with wraparound): the k-th iteration (from 0) selects
\* repositories[k mod N], repo_index stays within 0..N-1, and any N
\* consecutive iterations select every position of the list exactly once.
RoundRobin ==
    pc \in {"loop", "fetch", "process", "save", "pace"} =>
        LET N == Len(repositories)
        IN  /\ repo_index \in 0..(N - 1)
            /\ Len(visits) = cycle
            /\ \A k \in 1..Len(visits) : visits[k] = ((k - 1) % N) + 1
            /\ cycle > 0 => repo_url = repositories[visits[cycle]]
            /\ \A j \in 0..(Len(visits) - N) : \A p \in 1..N :
                   Cardinality({k \in (j + 1)..(j + N) : visits[k] = p}) = 1

\* more iterations than repositories, of a list of several: the selection
\* has wrapped around
RoundRobinWitness ==
    /\ Len(repositories) >= 2
    /\ Len(visits) > Len(repositories)
    /\ pc = "loop"

\* C19 (no cursor mutation on error or empty result): after an iteration
\* whose fetch failed or returned no issue, the dict in memory is what it was
\* when the iteration began, the notifier has not been called, and the
\* iteration goes on to the save.
NoMutationOnErrorOrEmpty ==
    (Processed /\ (issues.none \/ issues.list = <<>>)) =>
        /\ last_known_issues = prev_cursors
        /\ sent = <<>>
        /\ batch = <<>>
        /\ pc = "save" => ENABLED Save

\* a finished iteration on a repository with a cursor, whose fetch succeeded
\* and returned no issue
NoMutationWitness ==
    /\ pc = "loop" /\ cycle > 0
    /\ ~issues.none /\ issues.list = <<>>
    /\ Prev # NoneVal

\* C20 (no duplicate notification within one run): the notifier is called
\* only by the processing step of an iteration, once, and with a batch that
\* is not empty; a batch holds no number twice and no number of an earlier
\* batch of the repository.
NoDuplicateNotification ==
    /\ [](sent # <<>> => batch # <<>>)
    /\ [](Cardinality(Numbers(batch)) = Len(batch))
    /\ [][(sent' # sent /\ sent' # <<>>) => (pc = "process" /\ sent = <<>>)]_vars
    /\ [][pc = "process" => Numbers(batch') \cap notified[repo_url] = {}]_vars

\* a batch of a repository that was notified before, from a result that still
\* lists an issue of the earlier batch
NoDuplicateWitness ==
    /\ pc = "save"
    /\ batch # <<>>
    /\ \E n \in notified[repo_url] :
          n \notin Numbers(batch) /\ n \in Numbers(issues.list)

\* the keys of a JSON object
MemberKeys(members) == {members[i].k : i \in 1..Len(members)}

\* the JSON value a key of a JSON object has: that of its last member
MemberValue(members, key) ==
    LET at == {i \in 1..Len(members) : members[i].k = key}
    IN  members[Max(at)].v

\* C15 (idempotent persistence): a save of what the load of a record x
\* returned leaves a record with the keys of x and, for every key, the value
\* the key has in x.
SaveLoadRoundTrip ==
    pc = "saved" =>
        /\ ValidMapping(cursor_file)
        /\ MemberKeys(cursor_file.doc.members) = MemberKeys(round_trip_of.doc.members)
        /\ \A key \in MemberKeys(round_trip_of.doc.members) :
              MemberValue(cursor_file.doc.members, key)
                  = MemberValue(round_trip_of.doc.members, key)

\* a round trip of a record that holds a null and a number, with a key
\* written twice, so that the record written is not the text read
RoundTripWitness ==
    /\ pc = "saved"
    /\ Len(round_trip_of.doc.members) > Cardinality(MemberKeys(round_trip_of.doc.members))
    /\ \E i \in 1..Len(round_trip_of.doc.members) : round_trip_of.doc.members[i].v = JNull
    /\ \E key \in MemberKeys(round_trip_of.doc.members) :
          MemberValue(round_trip_of.doc.members, key) # JNull
    /\ cursor_file # round_trip_of

\* C11 as claimed (atomic save): a reader of the cursor file that runs
\* beside the save never reads a truncated or partially written file.
ReaderSeesCompleteRecord ==
    observed.kind \notin {"truncated", "partial"}

\* the cursor the record in file holds for url, absent when the record has
\* no such key or is no mapping
DurableCursor(file, url) ==
    LET loaded == load_last_issues(file)
    IN  IF loaded.isDict /\ url \in DOMAIN loaded.map THEN loaded.map[url]
        ELSE NoneVal

\* C12 as claimed (a crash loses at most one pending write), saves
\* succeeding: at every point inside the loop the durable record and the dict
\* in memory agree on every repository but the one being checked, and after
\* a kill and a restart the dict in memory agrees with the one the killed
\* process held on every repository but the one it was checking.
AtMostOnePendingWrite ==
    /\ pc \in {"loop", "fetch", "process", "save", "saving", "pace"} =>
          \A u \in DOMAIN last_known_issues :
              u # repo_url => DurableCursor(cursor_file, u) = last_known_issues[u]
    /\ (restarts > 0 /\ pc = "loop" /\ cycle = 0) =>
          \A u \in DOMAIN last_crash.memory :
              u # last_crash.url =>
                  /\ u \in DOMAIN last_known_issues
                  /\ last_known_issues[u] = last_crash.memory[u]

\* the process was killed after the processing step of an iteration that
\* found new issues and before its save began, and has started again
KilledBeforeSave ==
    /\ restarts > 0
    /\ last_crash.at = "save"
    /\ last_crash.detected # {}

=============================================================================
